---- MODULE Spec2Model ----
(***************************************************************************)
(* Model of tint_grass.py: the biome colour sampler, the luma tinter, the  *)
(* compositor and the pipeline driver main().                              *)
(*                                                                         *)
(* Numbers.  Python floats (binary64) are modelled as exact rationals      *)
(* [num, den] together with eps, the sign of (double - num/den); the       *)
(* sampler is only applied to dyadic values (eps = 0), for which every     *)
(* float64 operation of the sampler is exact.  numpy float32 values are    *)
(* modelled bit-exactly as [m, e] = m * 2^e with 2^23 <= m < 2^24 (or      *)
(* m = 0) and round-to-nearest-even after every operation.                 *)
(***************************************************************************)
EXTENDS Integers, Sequences, FiniteSets, TLC

(***************************************************************************)
(* Bounds of the model (not program constants).                            *)
(***************************************************************************)
MaxW == 2
MaxH == 2
MaxSeed == 2
MaxEighths == 12
MaxThousandths == 1012

(***************************************************************************)
(* Generic helpers.                                                        *)
(***************************************************************************)
Min(a, b) == IF a <= b THEN a ELSE b
Max(a, b) == IF a >= b THEN a ELSE b

RECURSIVE Pow2(_)
Pow2(n) == IF n <= 0 THEN 1 ELSE 2 * Pow2(n - 1)

RECURSIVE BitLen(_)
BitLen(n) == IF n <= 0 THEN 0 ELSE 1 + BitLen(n \div 2)

(***************************************************************************)
(* IEEE-754 binary32 arithmetic on non-negative values, as numpy performs  *)
(* it on float32 arrays.  All intermediate integers stay below 2^31.       *)
(***************************************************************************)
F32Zero == [m |-> 0, e |-> 0]

\* Round the exact value (hi * 2^24 + lo) * 2^e to 24 significant bits,
\* ties to even.
F32Round(hi, lo, e) ==
    LET L == IF hi > 0 THEN 24 + BitLen(hi) ELSE BitLen(lo) IN
    IF L = 0 THEN F32Zero
    ELSE IF L <= 24 THEN [m |-> lo * Pow2(24 - L), e |-> e - (24 - L)]
    ELSE
      LET s    == L - 24
          q    == IF s <= 24
                  THEN hi * Pow2(24 - s) + (lo \div Pow2(s))
                  ELSE hi \div Pow2(s - 24)
          r    == IF s <= 24
                  THEN lo % Pow2(s)
                  ELSE (hi % Pow2(s - 24)) * 16777216 + lo
          half == Pow2(s - 1)
          up   == (r > half) \/ (r = half /\ q % 2 = 1)
          q2   == IF up THEN q + 1 ELSE q
      IN IF q2 = 16777216 THEN [m |-> 8388608, e |-> e + s + 1]
         ELSE [m |-> q2, e |-> e + s]

\* np.float32(n) for an integer 0 <= n < 2^24 (exact).
F32FromInt(n) == F32Round(0, n, 0)

F32Mul(a, b) ==
    IF a.m = 0 \/ b.m = 0 THEN F32Zero
    ELSE
      LET h1 == a.m \div 4096   l1 == a.m % 4096
          h2 == b.m \div 4096   l2 == b.m % 4096
          cross == h1 * l2 + l1 * h2
          lo0 == l1 * l2 + (cross % 4096) * 4096
          lo  == lo0 % 16777216
          hi  == h1 * h2 + (cross \div 4096) + (lo0 \div 16777216)
      IN F32Round(hi, lo, a.e + b.e)

F32Add(a, b) ==
    IF a.m = 0 THEN b
    ELSE IF b.m = 0 THEN a
    ELSE
      LET big   == IF a.e >= b.e THEN a ELSE b
          small == IF a.e >= b.e THEN b ELSE a
          diff  == big.e - small.e
      IN IF diff > 25 THEN big
         ELSE
           LET hi0 == IF diff <= 24 THEN big.m \div Pow2(24 - diff)
                      ELSE big.m * Pow2(diff - 24)
               lo0 == IF diff <= 24 THEN (big.m % Pow2(24 - diff)) * Pow2(diff)
                      ELSE 0
               lo1 == lo0 + small.m
           IN F32Round(hi0 + (lo1 \div 16777216), lo1 % 16777216, small.e)

\* Long division: 25 further quotient bits after the integer bit.
RECURSIVE F32DivBits(_, _, _, _)
F32DivBits(q, r, d, k) ==
    IF k = 0 THEN <<q, r>>
    ELSE LET r2 == 2 * r
             bit == IF r2 >= d THEN 1 ELSE 0
         IN F32DivBits(2 * q + bit, r2 - bit * d, d, k - 1)

F32Div(a, b) ==
    IF a.m = 0 THEN F32Zero
    ELSE
      LET qr == F32DivBits(a.m \div b.m, a.m % b.m, b.m, 25)
          v  == 2 * qr[1] + (IF qr[2] # 0 THEN 1 ELSE 0)
      IN F32Round(v \div 16777216, v % 16777216, a.e - b.e - 26)

\* a > 1.0
F32GtOne(a) ==
    /\ a.m # 0
    /\ \/ a.e > -23
       \/ a.e = -23 /\ a.m > 8388608

F32One == [m |-> 8388608, e |-> -23]

\* np.clip(a, 0.0, 1.0) on a non-negative value
F32Clip01(a) == IF F32GtOne(a) THEN F32One ELSE a

\* .astype(np.uint8) of a value in [0, 256): truncation toward zero
F32ToUint8(a) ==
    IF a.m = 0 THEN 0
    ELSE IF a.e >= 0 THEN (a.m * Pow2(a.e)) % 256
    ELSE IF -a.e > 24 THEN 0
    ELSE (a.m \div Pow2(-a.e)) % 256

\* The float32 nearest to each Python literal of the luma line.
W299 == [m |-> 10032775, e |-> -25]
W587 == [m |-> 9848226, e |-> -24]
W114 == [m |-> 15300821, e |-> -27]
F255 == [m |-> 16711680, e |-> -16]

(***************************************************************************)
(* Python floats.  [kind, num, den, eps]: kind "fin" is the double whose   *)
(* value is num/den when eps = 0, and the double nearest to num/den,       *)
(* lying below (eps = -1) or above (eps = 1) it, otherwise.  den > 0.      *)
(***************************************************************************)
Fin(n, d) == [kind |-> "fin", num |-> n, den |-> d, eps |-> 0]
Dbl(n, d, s) == [kind |-> "fin", num |-> n, den |-> d, eps |-> s]
NaN == [kind |-> "nan", num |-> 0, den |-> 1, eps |-> 0]
PInf == [kind |-> "inf", num |-> 1, den |-> 1, eps |-> 0]
NInf == [kind |-> "ninf", num |-> -1, den |-> 1, eps |-> 0]

\* a < b as Python evaluates it (any comparison with nan is False)
FLt(a, b) ==
    IF a.kind = "nan" \/ b.kind = "nan" THEN FALSE
    ELSE IF a.kind = "inf" \/ b.kind = "ninf" THEN FALSE
    ELSE IF a.kind = "ninf" \/ b.kind = "inf" THEN TRUE
    ELSE LET l == a.num * b.den
             r == b.num * a.den
         IN (l < r) \/ (l = r /\ a.eps < b.eps)

\* Python's builtin min(a, b) / max(a, b): the first argument unless the
\* second is strictly smaller / larger.
PyMin(a, b) == IF FLt(b, a) THEN b ELSE a
PyMax(a, b) == IF FLt(a, b) THEN b ELSE a

clamp01_NoLower(v) == IF v.kind = "fin" THEN PyMin(Fin(1, 1), v)
                      ELSE PyMax(Fin(0, 1), PyMin(Fin(1, 1), v))

clamp01(v) == PyMax(Fin(0, 1), PyMin(Fin(1, 1), v))

\* Exact products and differences of finite values (exact in binary64 for
\* the dyadic values the sampler is applied to).
FMul(a, b) == Fin(a.num * b.num, a.den * b.den)
FSub(a, b) == Fin(a.num * b.den - b.num * a.den, a.den * b.den)

\* floor(n / d) for d > 0
FloorDiv(n, d) == IF n >= 0 THEN n \div d ELSE -((-n + d - 1) \div d)

\* Python 3 round(x) on a finite value: nearest integer, ties to even.
PyRound(v) ==
    LET q == FloorDiv(v.num, v.den)
        r == v.num - q * v.den
    IN IF 2 * r > v.den THEN q + 1
       ELSE IF 2 * r < v.den THEN q
       ELSE IF q % 2 = 0 THEN q ELSE q + 1

\* int(x): truncation toward zero
PyTrunc(v) == IF v.num >= 0 THEN v.num \div v.den ELSE -((-v.num) \div v.den)

(***************************************************************************)
(* Images.  [mode, size, data, gen]: size = <<width, height>>; data is the *)
(* row-major pixel sequence when gen = 0; for gen > 0 the image is the     *)
(* RGB pattern ColormapPattern(gen, x, y) (used for colormaps, whose       *)
(* 65536 pixels are not enumerated).                                       *)
(***************************************************************************)
ColormapPattern(g, px, py) ==
    IF g = 1 THEN <<px, py, (px + py) % 256>>
    ELSE <<255 - py, (px + 7 * g) % 256, py>>

Width(img) == img.size[1]
Height(img) == img.size[2]

\* numpy indexing cmap_np[y, x] of np.asarray(img.convert("RGB"))
RGBAt(img, px, py) ==
    IF img.gen > 0 THEN ColormapPattern(img.gen, px, py)
    ELSE LET p == img.data[py * Width(img) + px + 1]
         IN IF img.mode = "L" THEN <<p[1], p[1], p[1]>>
            ELSE <<p[1], p[2], p[3]>>

(***************************************************************************)
(* sample_biome_color (lines 12-31)                                        *)
(***************************************************************************)
d_proj_Unprojected(d, t) == d

d_proj_of(d, t) == FMul(d, t)

ToCoord_Trunc(v) == PyTrunc(FSub(Fin(255, 1), FMul(v, Fin(255, 1))))

\* int(round(255 - (v * 255)))
ToCoord(v) == PyRound(FSub(Fin(255, 1), FMul(v, Fin(255, 1))))

ClampCoord(c) == Max(0, Min(255, c))

\* The locals of one call and its return value.
sample_frame(colormap_img, temperature, downfall) ==
    LET t      == clamp01(temperature)
        d      == clamp01(downfall)
        d_proj == d_proj_of(d, t)
        x_img  == ClampCoord(ToCoord(t))
        y_img  == ClampCoord(ToCoord(d_proj))
    IN [t |-> t, d |-> d, d_proj |-> d_proj, x_img |-> x_img, y_img |-> y_img,
        ret |-> RGBAt(colormap_img, x_img, y_img)]

sample_biome_color(colormap_img, temperature, downfall) ==
    sample_frame(colormap_img, temperature, downfall).ret

(***************************************************************************)
(* Filename suffix formatting (lines 95-96).  Strings are sequences of     *)
(* one-character strings.                                                  *)
(***************************************************************************)
Digits == <<"0", "1", "2", "3", "4", "5", "6", "7", "8", "9">>

RECURSIVE IntToStr(_)
IntToStr(n) == IF n < 10 THEN <<Digits[n + 1]>>
               ELSE Append(IntToStr(n \div 10), Digits[(n % 10) + 1])

\* f"{v:.2f}": the exact binary value rounded to two decimals, ties to even
Format2f(v) ==
    IF v.kind = "nan" THEN <<"n", "a", "n">>
    ELSE IF v.kind = "inf" THEN <<"i", "n", "f">>
    ELSE IF v.kind = "ninf" THEN <<"-", "i", "n", "f">>
    ELSE
      LET neg == v.num < 0
          a   == IF neg THEN -v.num ELSE v.num
          e   == IF neg THEN -v.eps ELSE v.eps
          q   == (100 * a) \div v.den
          r   == (100 * a) % v.den
          up  == \/ 2 * r > v.den
                 \/ 2 * r = v.den /\ (e > 0 \/ (e = 0 /\ q % 2 = 1))
          h   == IF up THEN q + 1 ELSE q
      IN (IF neg THEN <<"-">> ELSE <<>>) \o IntToStr(h \div 100)
         \o <<".", Digits[((h % 100) \div 10) + 1], Digits[(h % 10) + 1]>>

\* str.rstrip(chars): drop trailing characters that belong to chars
RECURSIVE rstrip(_, _)
rstrip(s, chars) ==
    IF Len(s) > 0 /\ s[Len(s)] \in chars
    THEN rstrip(SubSeq(s, 1, Len(s) - 1), chars)
    ELSE s

StripTrailing_CharSet(s) == rstrip(s, {"0", "."})

\* .rstrip("0").rstrip(".")
StripTrailing(s) == rstrip(rstrip(s, {"0"}), {"."})

FormatParam(v) == StripTrailing(Format2f(v))

(***************************************************************************)
(* tint_grayscale_rgba (lines 33-52)                                       *)
(***************************************************************************)
\* img.convert("RGBA") of one pixel: modes without alpha become opaque
PixelToRGBA(mode, p) ==
    IF mode = "RGBA" THEN p
    ELSE IF mode = "RGB" THEN <<p[1], p[2], p[3], 255>>
    ELSE <<p[1], p[1], p[1], 255>>

ConvertRGBA(img) ==
    [mode |-> "RGBA", size |-> img.size, gen |-> 0,
     data |-> [k \in 1..Len(img.data) |-> PixelToRGBA(img.mode, img.data[k])]]

\* line 44: 0.299 * R + 0.587 * G + 0.114 * B in float32
Luma(p) ==
    F32Add(F32Add(F32Mul(W299, F32FromInt(p[1])),
                  F32Mul(W587, F32FromInt(p[2]))),
           F32Mul(W114, F32FromInt(p[3])))

LumNorm_By256(lum) == F32Div(lum, [m |-> 8388608, e |-> -15])

\* line 45: lum / 255.0
LumNorm(lum) == F32Div(lum, F255)

\* lines 47-49 for one channel c of biome_rgb
TintChannel(lum_norm, c) ==
    F32ToUint8(F32Mul(F32Clip01(F32Mul(lum_norm, F32Div(F32FromInt(c), F255))),
                      F255))

TintAlpha_BlueSlice(p) == p[3]

\* line 41: a = arr[..., 3:4]
TintAlpha(p) == p[4]

TintPixel(p, biome_rgb) ==
    LET lum_norm == LumNorm(Luma(p))
    IN <<TintChannel(lum_norm, biome_rgb[1]),
         TintChannel(lum_norm, biome_rgb[2]),
         TintChannel(lum_norm, biome_rgb[3]),
         TintAlpha(p)>>

tint_grayscale_rgba(img, biome_rgb) ==
    LET rgba == ConvertRGBA(img)
    IN [mode |-> "RGBA", size |-> rgba.size, gen |-> 0,
        data |-> [k \in 1..Len(rgba.data) |-> TintPixel(rgba.data[k], biome_rgb)]]

(***************************************************************************)
(* composite_overlay_onto_base (lines 54-61)                               *)
(***************************************************************************)
\* Image.resize(size, Image.NEAREST): each target pixel takes the source
\* pixel under its centre.
ResizeNearest(img, size) ==
    LET sw == Width(img)
        sh == Height(img)
        dw == size[1]
        dh == size[2]
        src(k) == LET px == (k - 1) % dw
                      py == (k - 1) \div dw
                      sx == ((2 * px + 1) * sw) \div (2 * dw)
                      sy == ((2 * py + 1) * sh) \div (2 * dh)
                  IN img.data[sy * sw + sx + 1]
    IN [mode |-> img.mode, size |-> size, gen |-> 0,
        data |-> [k \in 1..(dw * dh) |-> src(k)]]

ShiftForDiv255(a) == ((a \div 256) + a) \div 256

\* One pixel of Image.alpha_composite (integer "over" operator)
CompositePixel(dst, src) ==
    IF src[4] = 0 THEN dst
    ELSE
      LET blend   == dst[4] * (255 - src[4])
          outa255 == src[4] * 255 + blend
          coef1   == (src[4] * 255 * 255 * 128) \div outa255
          coef2   == 255 * 128 - coef1
          ch(i)   == ShiftForDiv255(src[i] * coef1 + dst[i] * coef2 + 128 * 128)
                       \div 128
      IN <<ch(1), ch(2), ch(3), ShiftForDiv255(outa255 + 128)>>

\* What a raised ValueError leaves in place of an image
ErrorImage == [mode |-> "ValueError", size |-> <<0, 0>>, gen |-> 0, data |-> <<>>]

\* Image.alpha_composite(im1, im2): both RGBA and of equal size, else ValueError
AlphaComposite(im1, im2) ==
    IF im1.mode # "RGBA" \/ im2.mode # "RGBA" \/ im1.size # im2.size
    THEN ErrorImage
    ELSE [mode |-> "RGBA", size |-> im1.size, gen |-> 0,
          data |-> [k \in 1..Len(im1.data) |-> CompositePixel(im1.data[k], im2.data[k])]]

FitOverlay_NoResize(overlay_rgba, size) == overlay_rgba

\* lines 59-60
FitOverlay(overlay_rgba, size) ==
    IF overlay_rgba.size # size THEN ResizeNearest(overlay_rgba, size)
    ELSE overlay_rgba

composite_overlay_onto_base(base, overlay_rgba) ==
    LET base_rgba == ConvertRGBA(base)
    IN AlphaComposite(base_rgba, FitOverlay(overlay_rgba, base_rgba.size))

(***************************************************************************)
(* Input domains.                                                          *)
(***************************************************************************)
Palette == << <<255, 255, 255, 255>>, <<0, 0, 0, 0>>, <<128, 128, 128, 77>>,
              <<200, 100, 50, 255>>, <<255, 255, 255, 0>>, <<17, 250, 99, 1>>,
              <<255, 255, 255, 130>> >>

PixelOfMode(mode, p) ==
    IF mode = "RGBA" THEN p
    ELSE IF mode = "RGB" THEN <<p[1], p[2], p[3]>>
    ELSE <<p[1]>>

MkImage(mode, w, h, seed) ==
    [mode |-> mode, size |-> <<w, h>>, gen |-> 0,
     data |-> [k \in 1..(w * h) |->
                 PixelOfMode(mode, Palette[((seed + k - 1) % Len(Palette)) + 1])]]

MkColormap(w, h, g) == [mode |-> "RGB", size |-> <<w, h>>, gen |-> g, data |-> <<>>]

NoImage == [mode |-> "none", size |-> <<0, 0>>, gen |-> 0, data |-> <<>>]

Modes == {"RGBA", "RGB", "L"}

Images == {MkImage(m, w, h, sd) : m \in Modes, w \in 1..MaxW, h \in 1..MaxH,
                                  sd \in 0..MaxSeed}

RGBAImages == {im \in Images : im.mode = "RGBA"}

WhiteImage == MkImage("RGB", 1, 1, 0)

\* every value 0..255 occurs in each channel
AllTints == {<<c, 255 - c, (7 * c) % 256>> : c \in 0..255}

SomeTints == {<<255, 255, 255>>, <<0, 0, 0>>, <<145, 189, 89>>, <<1, 254, 128>>}

\* dyadic values k/8, plus values the clamp sends to a bound
SampleValues == {Fin(k, 8) : k \in -4..MaxEighths}
                  \cup {Dbl(-3, 10, 1), NaN, PInf, NInf}

\* n/1000 is a double exactly when it is a multiple of 1/8
Thousandth(n) == IF n % 125 = 0 THEN {Fin(n, 1000)}
                 ELSE {Dbl(n, 1000, -1), Dbl(n, 1000, 1)}

FormatValues ==
    UNION {Thousandth(n) : n \in (-20..MaxThousandths)
                                   \cup {9995, 10000, 99995, 100000, 1234567}}
      \cup {NaN, PInf, NInf}

(***************************************************************************)
(* State.                                                                  *)
(***************************************************************************)
VARIABLES
    pc,           \* position of main()
    fs,           \* input files, by argument name
    args,         \* parsed command line
    status,       \* exit status of the process, -1 while it runs
    err,          \* what terminated the run
    opened,       \* arguments whose file Image.open was called on
    dir_made,     \* os.makedirs("out") was called
    cmap,         \* the loaded colormap
    biome_rgb,    \* the sampled colour
    sampled,      \* sample_biome_color was called
    suffix,       \* the default-name suffix
    out_top_file, \* the saved top output
    out_side_file,\* the saved side output
    sample_call,  \* one call of sample_biome_color
    tint_call,    \* one call of tint_grayscale_rgba
    comp_call,    \* one call of composite_overlay_onto_base
    fmt_call      \* one evaluation of the suffix formatting

mainVars == <<pc, fs, args, status, err, opened, dir_made, cmap, biome_rgb,
              sampled, suffix, out_top_file, out_side_file>>
callVars == <<sample_call, tint_call, comp_call, fmt_call>>
vars == <<mainVars, callVars>>

NoFrame == [t |-> Fin(0, 1), d |-> Fin(0, 1), d_proj |-> Fin(0, 1),
            x_img |-> 0, y_img |-> 0, ret |-> <<0, 0, 0>>]

IdleSample == [done |-> FALSE, cmap |-> NoImage, temperature |-> Fin(0, 1),
               downfall |-> Fin(0, 1), frame |-> NoFrame]
IdleTint == [done |-> FALSE, img |-> NoImage, biome_rgb |-> <<0, 0, 0>>,
             ret |-> NoImage]
IdleComp == [done |-> FALSE, base |-> NoImage, overlay |-> NoImage,
             ret |-> NoImage]
IdleFmt == [done |-> FALSE, value |-> Fin(0, 1), two_dec |-> <<>>, str |-> <<>>]

NoOutput == [written |-> FALSE, path |-> <<>>, img |-> NoImage]

MainIdle ==
    /\ pc = "idle"
    /\ fs = <<>>
    /\ args = <<>>
    /\ status = -1
    /\ err = "none"
    /\ opened = {}
    /\ dir_made = FALSE
    /\ cmap = NoImage
    /\ biome_rgb = <<0, 0, 0>>
    /\ sampled = FALSE
    /\ suffix = <<>>
    /\ out_top_file = NoOutput
    /\ out_side_file = NoOutput

(***************************************************************************)
(* Calls of the three pure functions and of the formatting expression.     *)
(***************************************************************************)
InitSample ==
    /\ MainIdle
    /\ \E g \in 1..2, t \in SampleValues, d \in SampleValues :
         sample_call = [IdleSample EXCEPT !.cmap = MkColormap(256, 256, g),
                                          !.temperature = t, !.downfall = d]
    /\ tint_call = IdleTint /\ comp_call = IdleComp /\ fmt_call = IdleFmt

CallSample ==
    /\ ~sample_call.done
    /\ sample_call' = [sample_call EXCEPT
                         !.done = TRUE,
                         !.frame = sample_frame(sample_call.cmap,
                                                sample_call.temperature,
                                                sample_call.downfall)]
    /\ UNCHANGED <<mainVars, tint_call, comp_call, fmt_call>>

NextSample == CallSample
SpecSample == InitSample /\ [][NextSample]_vars

InitTint ==
    /\ MainIdle
    /\ \/ \E im \in Images, c \in SomeTints :
            tint_call = [IdleTint EXCEPT !.img = im, !.biome_rgb = c]
       \/ \E c \in AllTints :
            tint_call = [IdleTint EXCEPT !.img = WhiteImage, !.biome_rgb = c]
    /\ sample_call = IdleSample /\ comp_call = IdleComp /\ fmt_call = IdleFmt

CallTint ==
    /\ ~tint_call.done
    /\ tint_call' = [tint_call EXCEPT
                       !.done = TRUE,
                       !.ret = tint_grayscale_rgba(tint_call.img,
                                                   tint_call.biome_rgb)]
    /\ UNCHANGED <<mainVars, sample_call, comp_call, fmt_call>>

NextTint == CallTint
SpecTint == InitTint /\ [][NextTint]_vars

InitComp ==
    /\ MainIdle
    /\ \E b \in Images, o \in RGBAImages :
         comp_call = [IdleComp EXCEPT !.base = b, !.overlay = o]
    /\ sample_call = IdleSample /\ tint_call = IdleTint /\ fmt_call = IdleFmt

CallComposite ==
    /\ ~comp_call.done
    /\ comp_call' = [comp_call EXCEPT
                       !.done = TRUE,
                       !.ret = composite_overlay_onto_base(comp_call.base,
                                                           comp_call.overlay)]
    /\ UNCHANGED <<mainVars, sample_call, tint_call, fmt_call>>

NextComp == CallComposite
SpecComp == InitComp /\ [][NextComp]_vars

InitFmt ==
    /\ MainIdle
    /\ \E v \in FormatValues : fmt_call = [IdleFmt EXCEPT !.value = v]
    /\ sample_call = IdleSample /\ tint_call = IdleTint /\ comp_call = IdleComp

CallFormat ==
    /\ ~fmt_call.done
    /\ fmt_call' = [fmt_call EXCEPT
                      !.done = TRUE,
                      !.two_dec = Format2f(fmt_call.value),
                      !.str = FormatParam(fmt_call.value)]
    /\ UNCHANGED <<mainVars, sample_call, tint_call, comp_call>>

NextFmt == CallFormat
SpecFmt == InitFmt /\ [][NextFmt]_vars

(***************************************************************************)
(* main() (lines 63-116)                                                   *)
(***************************************************************************)
ArgNames == {"top", "side_overlay", "side_base", "colormap"}

Missing == [kind |-> "missing", img |-> NoImage]
Corrupt == [kind |-> "corrupt", img |-> NoImage]
ImageFile(im) == [kind |-> "image", img |-> im]

TopFiles == {Missing, Corrupt, ImageFile(MkImage("L", MaxW, MaxH, 0))}
OverlayFiles == {Missing, Corrupt, ImageFile(MkImage("RGBA", 1, 1, 2))}
BaseFiles == {Missing, Corrupt, ImageFile(MkImage("RGB", MaxW, MaxH, 3))}
ColormapFiles == {Missing, Corrupt, ImageFile(MkColormap(256, 256, 1)),
                  ImageFile(MkColormap(256, 128, 1)),
                  ImageFile(MkColormap(128, 128, 2))}

Temperatures == {Fin(-4, 8), Fin(4, 8), Fin(8, 8), Fin(MaxEighths, 8)}
Downfalls == {Fin(0, 8), Fin(4, 8), Fin(8, 8), Fin(MaxEighths, 8)}

\* --out-top / --out-side: None (<<>>) or an explicit path
OutArgs == {[out_top |-> <<>>, out_side |-> <<>>],
            [out_top |-> <<"my_top.png">>, out_side |-> <<"my_side.png">>]}

Init ==
    /\ pc = "check_inputs"
    /\ fs \in {f \in [ArgNames -> TopFiles \cup OverlayFiles \cup BaseFiles
                                    \cup ColormapFiles] :
                 /\ f["top"] \in TopFiles
                 /\ f["side_overlay"] \in OverlayFiles
                 /\ f["side_base"] \in BaseFiles
                 /\ f["colormap"] \in ColormapFiles}
    /\ \E t \in Temperatures, d \in Downfalls, o \in OutArgs :
         args = [temperature |-> t, downfall |-> d,
                 out_top |-> o.out_top, out_side |-> o.out_side]
    /\ status = -1
    /\ err = "none"
    /\ opened = {}
    /\ dir_made = FALSE
    /\ cmap = NoImage
    /\ biome_rgb = <<0, 0, 0>>
    /\ sampled = FALSE
    /\ suffix = <<>>
    /\ out_top_file = NoOutput
    /\ out_side_file = NoOutput
    /\ sample_call = IdleSample /\ tint_call = IdleTint
    /\ comp_call = IdleComp /\ fmt_call = IdleFmt

CheckedPaths_NoColormap == <<"top", "side_overlay", "side_base">>

\* line 78: the paths whose existence is checked, in order
CheckedPaths == <<"top", "side_overlay", "side_base", "colormap">>

\* os.path.isfile
IsFile(a) == fs[a].kind # "missing"

\* an uncaught exception: traceback, exit status 1
Raise ==
    /\ pc' = "exited"
    /\ status' = 1
    /\ err' = "exception"

\* lines 77-81
CheckInputs ==
    /\ pc = "check_inputs"
    /\ IF \E k \in 1..Len(CheckedPaths) : ~IsFile(CheckedPaths[k])
       THEN /\ pc' = "exited"
            /\ status' = 1
            /\ err' = "file_not_found"
       ELSE /\ pc' = "load_cmap"
            /\ UNCHANGED <<status, err>>
    /\ UNCHANGED <<fs, args, opened, dir_made, cmap, biome_rgb, sampled, suffix,
                   out_top_file, out_side_file, callVars>>

ColormapSizeOk_WidthOnly(size) == size[1] = 256

\* line 84
ColormapSizeOk(size) == size = <<256, 256>>

\* lines 83-86
LoadColormap ==
    /\ pc = "load_cmap"
    /\ opened' = opened \cup {"colormap"}
    /\ IF fs["colormap"].kind # "image"
       THEN Raise /\ UNCHANGED cmap
       ELSE /\ cmap' = [fs["colormap"].img EXCEPT !.mode = "RGB"]
            /\ IF ~ColormapSizeOk(cmap'.size)
               THEN /\ pc' = "exited"
                    /\ status' = 1
                    /\ err' = "bad_colormap_size"
               ELSE /\ pc' = "sample"
                    /\ UNCHANGED <<status, err>>
    /\ UNCHANGED <<fs, args, dir_made, biome_rgb, sampled, suffix,
                   out_top_file, out_side_file, callVars>>

\* lines 95-97
Suffix(temperature, downfall) ==
    FormatParam(temperature) \o <<"_">> \o FormatParam(downfall)

\* lines 88-97
SampleAndName ==
    /\ pc = "sample"
    /\ biome_rgb' = sample_biome_color(cmap, args.temperature, args.downfall)
    /\ sampled' = TRUE
    /\ dir_made' = TRUE
    /\ suffix' = Suffix(args.temperature, args.downfall)
    /\ pc' = "top"
    /\ UNCHANGED <<fs, args, status, err, opened, cmap, out_top_file,
                   out_side_file, callVars>>

\* lines 102 and 111: args.out_x or os.path.join(out_dir, f"{stem}_{suffix}.png")
OutPath(arg, stem) ==
    IF arg # <<>> THEN arg
    ELSE <<"out", "/", stem, "_">> \o suffix \o <<".png">>

\* lines 99-103
ProcessTop ==
    /\ pc = "top"
    /\ opened' = opened \cup {"top"}
    /\ IF fs["top"].kind # "image"
       THEN Raise /\ UNCHANGED out_top_file
       ELSE /\ out_top_file' =
                 [written |-> TRUE,
                  path |-> OutPath(args.out_top, "grass_block_top"),
                  img |-> tint_grayscale_rgba(fs["top"].img, biome_rgb)]
            /\ pc' = "side"
            /\ UNCHANGED <<status, err>>
    /\ UNCHANGED <<fs, args, dir_made, cmap, biome_rgb, sampled, suffix,
                   out_side_file, callVars>>

\* lines 105-116
ProcessSide ==
    /\ pc = "side"
    /\ IF fs["side_overlay"].kind # "image"
       THEN /\ opened' = opened \cup {"side_overlay"}
            /\ Raise /\ UNCHANGED out_side_file
       ELSE /\ opened' = opened \cup {"side_overlay", "side_base"}
            /\ IF fs["side_base"].kind # "image"
               THEN Raise /\ UNCHANGED out_side_file
               ELSE /\ out_side_file' =
                         [written |-> TRUE,
                          path |-> OutPath(args.out_side, "grass_block_side"),
                          img |-> composite_overlay_onto_base(
                                     fs["side_base"].img,
                                     tint_grayscale_rgba(fs["side_overlay"].img,
                                                         biome_rgb))]
                    /\ pc' = "exited"
                    /\ status' = 0
                    /\ UNCHANGED err
    /\ UNCHANGED <<fs, args, dir_made, cmap, biome_rgb, sampled, suffix,
                   out_top_file, callVars>>

Next ==
    \/ CheckInputs
    \/ LoadColormap
    \/ SampleAndName
    \/ ProcessTop
    \/ ProcessSide

Spec == Init /\ [][Next]_vars

(***************************************************************************)
(* Properties.                                                             *)
(***************************************************************************)
SomeInputMissing == \E a \in ArgNames : fs[a].kind = "missing"

NoOutputWritten == ~out_top_file.written /\ ~out_side_file.written

\* C1: when main() has terminated, either both output files (tinted top and
\* composited side) have been written or neither has.
C1_NoPartialOutputs ==
    pc = "exited" => (out_top_file.written <=> out_side_file.written)

\* C2: if any of the four input paths is not an existing file, main() exits
\* with status 1 (file-not-found) before any processing: no image is opened,
\* no colour is sampled, the output directory is not created and no output
\* file is written.
C2_MissingInputExitsEarly ==
    SomeInputMissing =>
        /\ pc \in {"check_inputs", "exited"}
        /\ pc = "exited" => (status = 1 /\ err = "file_not_found")
        /\ opened = {}
        /\ ~sampled
        /\ ~dir_made
        /\ NoOutputWritten

C2_Witness ==
    /\ pc = "exited"
    /\ status = 1
    /\ fs["colormap"].kind = "missing"
    /\ \A a \in ArgNames \ {"colormap"} : fs[a].kind = "image"

\* C3: if all four input files exist and the loaded colormap is not exactly
\* 256x256, main() exits with status 1 without sampling, without creating the
\* output directory and without writing an output; and a run reaches the
\* sampling step only with a 256x256 colormap.
C3_BadColormapSizeExits ==
    /\ (/\ ~SomeInputMissing
        /\ fs["colormap"].kind = "image"
        /\ fs["colormap"].img.size # <<256, 256>>)
       => /\ pc \in {"check_inputs", "load_cmap", "exited"}
          /\ pc = "exited" => (status = 1 /\ err = "bad_colormap_size")
          /\ ~sampled
          /\ ~dir_made
          /\ NoOutputWritten
    /\ (sampled \/ pc \in {"sample", "top", "side"}) => cmap.size = <<256, 256>>

C3_Witness ==
    /\ pc = "exited"
    /\ err = "bad_colormap_size"
    /\ status = 1
    /\ cmap.size = <<256, 128>>
    /\ ~SomeInputMissing

InputPixelIsWhite(img, k) ==
    LET p == img.data[k]
    IN IF img.mode = "L" THEN p[1] = 255
       ELSE p[1] = 255 /\ p[2] = 255 /\ p[3] = 255

\* C4: for every tint colour, tint_grayscale_rgba maps each pure white input
\* pixel (255,255,255) to an output pixel whose RGB channels equal the tint
\* colour exactly.
C4_WhiteBecomesTint ==
    tint_call.done =>
        \A k \in 1..Len(tint_call.img.data) :
            InputPixelIsWhite(tint_call.img, k) =>
                /\ tint_call.ret.data[k][1] = tint_call.biome_rgb[1]
                /\ tint_call.ret.data[k][2] = tint_call.biome_rgb[2]
                /\ tint_call.ret.data[k][3] = tint_call.biome_rgb[3]

C4_Witness ==
    /\ tint_call.done
    /\ tint_call.img = WhiteImage
    /\ tint_call.biome_rgb = <<145, 110, 247>>
    /\ tint_call.ret.data[1] = <<145, 110, 247, 255>>

\* C5: tint_grayscale_rgba preserves alpha: the output has the dimensions of
\* the input and each output pixel's alpha equals the input pixel's alpha
\* (255 for an input without an alpha channel), whatever the RGB and the tint.
C5_AlphaPreserved ==
    tint_call.done =>
        /\ tint_call.ret.size = tint_call.img.size
        /\ tint_call.ret.mode = "RGBA"
        /\ Len(tint_call.ret.data) = Len(tint_call.img.data)
        /\ \A k \in 1..Len(tint_call.img.data) :
              tint_call.ret.data[k][4] =
                 IF tint_call.img.mode = "RGBA" THEN tint_call.img.data[k][4]
                 ELSE 255

C5_Witness ==
    /\ tint_call.done
    /\ tint_call.img.mode = "RGBA"
    /\ tint_call.biome_rgb = <<145, 189, 89>>
    /\ Len(tint_call.img.data) > 1
    /\ \E k \in 1..Len(tint_call.img.data) :
          /\ tint_call.img.data[k] = <<128, 128, 128, 77>>
          /\ tint_call.ret.data[k][4] = 77
          /\ tint_call.ret.data[k][1] # 128

\* Clamping to [0,1], stated on the value: below 0 gives 0, above 1 gives 1.
ClampedTo01(v) ==
    IF FLt(v, Fin(0, 1)) THEN Fin(0, 1)
    ELSE IF FLt(Fin(1, 1), v) THEN Fin(1, 1)
    ELSE v

\* C6: sample_biome_color(cmap, temperature, downfall) returns the RGB that
\* it returns for the two parameters clamped independently to [0,1]; in
\* particular (1.5, -0.3) samples as (1.0, 0.0).
C6_ClampEquivalence ==
    sample_call.done =>
        /\ sample_call.frame.ret =
              sample_biome_color(sample_call.cmap,
                                 ClampedTo01(sample_call.temperature),
                                 ClampedTo01(sample_call.downfall))
        /\ (sample_call.temperature = Fin(12, 8)
              /\ sample_call.downfall = Dbl(-3, 10, 1))
           => sample_call.frame.ret =
                 sample_biome_color(sample_call.cmap, Fin(1, 1), Fin(0, 1))

C6_Witness ==
    /\ sample_call.done
    /\ sample_call.temperature = Fin(12, 8)
    /\ sample_call.downfall = Dbl(-3, 10, 1)
    /\ sample_call.frame.x_img = 0
    /\ sample_call.frame.y_img = 255

\* c is the integer nearest to 255 - (n/d)*255, the even one on a tie
IsRoundOf(c, n, d) ==
    LET diff == c * d - (255 * d - 255 * n)
        dist == IF diff >= 0 THEN diff ELSE -diff
    IN /\ 2 * dist <= d
       /\ 2 * dist = d => c % 2 = 0

\* C7: sample_biome_color returns the colormap RGB stored at column
\* x = round(255 - t*255) and row y = round(255 - d*t*255), t and d the
\* clamped inputs; x and y are inside [0,255]; temperature 0.5 with
\* downfall 1.0 resolves to x = 128, y = 128.
C7_SampleCoordinates ==
    sample_call.done =>
        LET f == sample_call.frame
        IN /\ IsRoundOf(f.x_img, f.t.num, f.t.den)
           /\ IsRoundOf(f.y_img, f.d.num * f.t.num, f.d.den * f.t.den)
           /\ f.x_img \in 0..255
           /\ f.y_img \in 0..255
           /\ f.ret = ColormapPattern(sample_call.cmap.gen, f.x_img, f.y_img)
           /\ (sample_call.temperature = Fin(4, 8)
                 /\ sample_call.downfall = Fin(8, 8))
              => (f.x_img = 128 /\ f.y_img = 128)

C7_Witness ==
    /\ sample_call.done
    /\ sample_call.temperature = Fin(4, 8)
    /\ sample_call.downfall = Fin(8, 8)
    /\ sample_call.cmap.gen = 1
    /\ sample_call.frame.ret = <<128, 128, 0>>

DigitVal(c) == CHOOSE i \in 0..9 : Digits[i + 1] = c

RECURSIVE DigitsVal(_)
DigitsVal(s) == IF Len(s) = 0 THEN 0
                ELSE 10 * DigitsVal(SubSeq(s, 1, Len(s) - 1)) + DigitVal(s[Len(s)])

\* The number a decimal string denotes, in hundredths, with its sign
ParseDec(s) ==
    IF \E i \in 1..Len(s) : s[i] \in {"n", "a", "i", "f"}
    THEN [special |-> s, neg |-> FALSE, hundredths |-> 0]
    ELSE
      LET neg  == Len(s) > 0 /\ s[1] = "-"
          body == IF neg THEN Tail(s) ELSE s
          dot  == IF \E i \in 1..Len(body) : body[i] = "."
                  THEN CHOOSE i \in 1..Len(body) : body[i] = "."
                  ELSE Len(body) + 1
          ip   == SubSeq(body, 1, dot - 1)
          fp   == SubSeq(body, dot + 1, Len(body))
          frac == IF Len(fp) = 1 THEN 10 * DigitVal(fp[1]) ELSE DigitsVal(fp)
      IN [special |-> <<>>, neg |-> neg, hundredths |-> 100 * DigitsVal(ip) + frac]

HasDot(s) == \E i \in 1..Len(s) : s[i] = "."

\* C8: the suffix part of a value is its two-decimal form with trailing "0"s
\* and then a trailing "." removed: 0.80 -> "0.8", 1.00 -> "1", 0.5 -> "0.5",
\* 0.333 -> "0.33", 0 -> "0", 10 -> "10"; it denotes the same number as the
\* two-decimal form and never ends in "." or in a "0" after a decimal point.
C8_SuffixFormatting ==
    fmt_call.done =>
        LET v == fmt_call.value
            r == fmt_call.str
        IN /\ Len(r) > 0
           /\ ParseDec(r) = ParseDec(fmt_call.two_dec)
           /\ r[Len(r)] # "."
           /\ HasDot(r) => r[Len(r)] # "0"
           /\ (v.kind = "fin" /\ v.num = 800) => r = <<"0", ".", "8">>
           /\ (v.kind = "fin" /\ v.num = 1000) => r = <<"1">>
           /\ (v.kind = "fin" /\ v.num = 500) => r = <<"0", ".", "5">>
           /\ (v.kind = "fin" /\ v.num = 333) => r = <<"0", ".", "3", "3">>
           /\ (v.kind = "fin" /\ v.num = 0) => r = <<"0">>
           /\ (v.kind = "fin" /\ v.num = 10000) => r = <<"1", "0">>

C8_Witness ==
    /\ fmt_call.done
    /\ fmt_call.value = Fin(10000, 1000)
    /\ fmt_call.two_dec = <<"1", "0", ".", "0", "0">>
    /\ fmt_call.str = <<"1", "0">>

\* C9: composite_overlay_onto_base returns an RGBA image whose size equals
\* the base image's size, for every base size and every overlay size.
C9_CompositeHasBaseSize ==
    comp_call.done =>
        /\ comp_call.ret.size = comp_call.base.size
        /\ comp_call.ret.mode = "RGBA"
        /\ Len(comp_call.ret.data) = Width(comp_call.base) * Height(comp_call.base)

C9_Witness ==
    /\ comp_call.done
    /\ comp_call.base.size = <<MaxW, 1>>
    /\ comp_call.overlay.size = <<1, MaxH>>
    /\ comp_call.ret.size = <<MaxW, 1>>

\* C10: the effective downfall d*t computed from the clamped values never
\* exceeds the clamped temperature t, so the sampled point lies in the
\* colormap's lower-left triangle (row index at least the column index).
C10_TriangleProjection ==
    sample_call.done =>
        LET f == sample_call.frame
        IN /\ f.d_proj.num * f.t.den <= f.t.num * f.d_proj.den
           /\ f.d_proj.num >= 0
           /\ f.y_img >= f.x_img

C10_Witness ==
    /\ sample_call.done
    /\ sample_call.temperature = Fin(4, 8)
    /\ sample_call.downfall = Fin(4, 8)
    /\ sample_call.frame.d_proj = Fin(16, 64)
    /\ sample_call.frame.y_img > sample_call.frame.x_img

====
